---- MODULE Spec2Model ----
(***************************************************************************)
(* A model of fromsoftware-rs (darksouls3 crate):                          *)
(*   - util/save.rs: the on_save / on_load hooks that splice an            *)
(*     application payload into the game's EquipGameData save stream;      *)
(*   - util/input.rs: the lazily initialised InputBlocker singleton.       *)
(*     its hook closures and its blocked set;                              *)
(*   - sprj/item.rs, sprj/field_ins.rs: the packed item IDs and            *)
(*     field-instance selectors;                                           *)
(*   - cs/regulation_manager.rs: row lookup in a parameter table.          *)
(* Bytes are integers 0..255, byte strings are sequences of bytes.         *)
(***************************************************************************)
EXTENDS Integers, Sequences, FiniteSets, TLC

VARIABLES
    file,          \* the save region: [bytes, entry]; entry = stream position at which the hook is entered
    fileFromSave,  \* TRUE iff file is exactly what the last on_save event produced
    sv,            \* the last save event: inputs, resulting stream, calls made (in order), return value
    ld,            \* the last load event: inputs, calls made (in order), return value
    crashed,       \* a panic unwound out of a hook (an .unwrap() on an Err): the process is gone
    phase,         \* "fresh": no save region yet; "stored": one is in place; "loaded": it was read back
    pc,            \* per thread: where it stands in InputBlocker::get_instance
    calls,         \* per thread: the calls of get_instance it has made
    idx,           \* per thread: the position in inputs_and_rvas of the hook it installs next
    hooks,         \* per thread: the local hooks array, the devices whose ClosureHookPoint it holds
    mutexOwner,    \* INITIALIZING_INPUT_BLOCKER: 0 when free, else the thread that holds the guard
    blockerSet,    \* whether the OnceLock INPUT_BLOCKER holds an InputBlocker
    installed,     \* per device: the trampolines now in place on its should-block-input function
    installs,      \* per device: the registrations that ever succeeded
    hookFailed,    \* whether a registration ever failed
    gamePc,        \* the game's input thread: "out", or "wait" inside a hook closure at INPUT_BLOCKER.wait()
    gameDev,       \* the device whose should-block-input function the game's thread has called
    lastHook,      \* the last completed run of a hook closure: its inputs, its calls of original, its result
    blocked,       \* the AtomicU8 inside the InputBlocker: the bits of the blocked InputFlags
    lastOp,        \* the last call of block / unblock / block_only: its argument and the bits before it
    arg,           \* the arguments of the value-level functions (item IDs, selectors, tables)
    res,           \* the last application of such a function to arg: which one, and what it gave
    inv,           \* game memory: a slot pool (the inventory's two arrays, or a ChrSet's entries) and its header
    iter,          \* an iterator over the slot pool: its slices, its position, what it has yielded
    slot,          \* game memory: the static pointer slot of a singleton, and whether its RVA translates
    inst           \* the calls of instance() made so far: what the slot held, what the call gave

saveVars == <<file, fileFromSave, sv, ld, crashed, phase>>

inputVars == <<pc, calls, idx, hooks, mutexOwner, blockerSet, installed, installs, hookFailed>>

gameVars == <<gamePc, gameDev, lastHook>>

blockVars == <<blocked, lastOp>>

pureVars == <<arg, res>>

poolVars == <<inv, iter>>

staticVars == <<slot, inst>>

memVars == <<poolVars, staticVars>>

vars == <<saveVars, inputVars, gameVars, blockVars, pureVars, memVars>>

----------------------------------------------------------------------------
(* Bounds of the model *)

\* longest payload the save callback returns
MaxPayloadLen == 2
\* longest byte string the native serializer writes (besides the one that imitates the header)
MaxNativeLen == 2
\* room of the largest output stream (stands for the 2GB ceiling of a save file)
SaveCeiling == 64
\* threads that call InputBlocker::get_instance
NumThreads == 2
\* calls of get_instance a thread makes
MaxCalls == 2
\* how many of the smallest and of the largest 28-bit values are tried as low parts
EdgeWidth == 2
\* longest row directory of a parameter table
MaxRows == 3
\* size of the address space in which the parameter tables lie
AddrSpace == 4096
\* largest key_items_capacity
MaxKeySlots == 1
\* largest normal_items_capacity, and largest capacity of a ChrSet
MaxNormalSlots == 2
\* writes the game makes to a slot pool while an iteration is under way
MaxForeignWrites == 1
\* calls of instance() on one singleton
MaxInstanceCalls == 3
\* entries of an ItemBuffer
MaxBufferLen == 3

----------------------------------------------------------------------------
(* Helpers *)

Min(a, b) == IF a < b THEN a ELSE b

Take(s, n) == SubSeq(s, 1, Min(n, Len(s)))

Drop(s, n) == SubSeq(s, n + 1, Len(s))

SeqsUpTo(S, n) == UNION {[1..k -> S] : k \in 0..n}

----------------------------------------------------------------------------
(* util/save.rs *)

\* const HEADER: &str = "fromsoftware-rs" as its ASCII bytes
HEADER == <<102, 114, 111, 109, 115, 111, 102, 116, 119, 97, 114, 101, 45, 114, 115>>

HeaderLen == Len(HEADER)

\* the width of the length prefix of a delimited block (the 4 of result.len() + 4)
LenPrefixWidth == 4

\* the number of normal items of the main menu's placeholder save
MainMenuItemCount == 12

\* is_main_menu that takes every count from the placeholder's upwards for the placeholder
is_main_menu_at_least(count) == count >= MainMenuItemCount

\* EquipGameData::is_main_menu, on the context's normal_items_count
is_main_menu(count) == count = MainMenuItemCount

\* Option<Vec<u8>>
None == [some |-> FALSE, data |-> <<>>]

Some(d) == [some |-> TRUE, data |-> d]

(* dlio: the memory streams. An output stream is a byte region of fixed      *)
(* capacity; a write stores as many bytes as still fit and reports how many. *)
Room(s) == s.cap - Len(s.buf)

write(s, bytes) ==
    [stream |-> [s EXCEPT !.buf = s.buf \o Take(bytes, Room(s))],
     n      |-> Min(Len(bytes), Room(s))]

\* std::io::Write::write_all (behind write!): Err(WriteZero) when a write stores nothing
write_all(s, bytes) ==
    [stream |-> write(s, bytes).stream, ok |-> Len(bytes) <= Room(s)]

\* a length as a little-endian u32
U32LE(n) == <<n % 256, (n \div 256) % 256, (n \div 65536) % 256, (n \div 16777216) % 256>>

FromU32LE(b) == b[1] + 256 * b[2] + 65536 * b[3] + 16777216 * b[4]

\* a length-delimited block
Delimited(data) == U32LE(Len(data)) \o data

\* write_delimited: the length prefix, then the data; the count of bytes stored
write_delimited(s, data) == write(s, Delimited(data))

\* the game's own serializer: appends its bytes to the stream and reports a status
original_serialize(s, nat, natRet) ==
    [stream |-> write(s, nat).stream, written |-> Take(nat, Room(s)), ret |-> natRet]

\* save_extension with the placeholder check left out
save_extension_unchecked(count, cb, stream) ==
    LET h == write_all(stream, HEADER)
        b == write_delimited(h.stream, cb.data)
    IN  IF ~cb.some
        THEN [status |-> "skip", stream |-> stream, blockN |-> 0, log |-> <<"callback">>]
        ELSE IF ~h.ok
        THEN [status |-> "panic", stream |-> h.stream, blockN |-> 0,
              log |-> <<"callback", "write_header">>]
        ELSE [status |-> IF b.n # Len(cb.data) + LenPrefixWidth THEN "short" ELSE "written",
              stream |-> b.stream, blockN |-> b.n,
              log |-> <<"callback", "write_header", "write_block">>]

\* save_extension that writes no block for an empty payload
save_extension_skips_empty(count, cb, stream) ==
    LET h == write_all(stream, HEADER)
        b == IF cb.data = <<>> THEN [stream |-> h.stream, n |-> LenPrefixWidth]
             ELSE write_delimited(h.stream, cb.data)
    IN  IF is_main_menu(count)
        THEN [status |-> "skip", stream |-> stream, blockN |-> 0, log |-> <<>>]
        ELSE IF ~cb.some
        THEN [status |-> "skip", stream |-> stream, blockN |-> 0, log |-> <<"callback">>]
        ELSE IF ~h.ok
        THEN [status |-> "panic", stream |-> h.stream, blockN |-> 0,
              log |-> <<"callback", "write_header">>]
        ELSE [status |-> IF b.n # Len(cb.data) + LenPrefixWidth THEN "short" ELSE "written",
              stream |-> b.stream, blockN |-> b.n,
              log |-> <<"callback", "write_header", "write_block">>]

\* on_save, before the game's serializer runs: the placeholder check, the callback,
\* the header and the block
save_extension(count, cb, stream) ==
    LET h == write_all(stream, HEADER)
        b == write_delimited(h.stream, cb.data)
    IN  IF is_main_menu(count)
        THEN [status |-> "skip", stream |-> stream, blockN |-> 0, log |-> <<>>]
        ELSE IF ~cb.some
        THEN [status |-> "skip", stream |-> stream, blockN |-> 0, log |-> <<"callback">>]
        ELSE IF ~h.ok
        THEN [status |-> "panic", stream |-> h.stream, blockN |-> 0,
              log |-> <<"callback", "write_header">>]
        ELSE [status |-> IF b.n # Len(cb.data) + LenPrefixWidth THEN "short" ELSE "written",
              stream |-> b.stream, blockN |-> b.n,
              log |-> <<"callback", "write_header", "write_block">>]

\* on_save that lets the game's serializer write first and appends the extension after it
on_save_native_first(count, cb, stream, nat, natRet) ==
    LET o == original_serialize(stream, nat, natRet)
        e == save_extension(count, cb, o.stream)
    IN  IF e.status = "panic"
        THEN [status |-> "panic", out |-> e.stream.buf, ret |-> 0, blockN |-> e.blockN,
              natOut |-> o.written, log |-> <<"native">> \o e.log]
        ELSE [status |-> "done", out |-> e.stream.buf,
              ret |-> IF e.status = "short" THEN 1 ELSE o.ret, blockN |-> e.blockN,
              natOut |-> o.written, log |-> <<"native">> \o e.log]

\* on_save that reports success itself instead of handing on the serializer's status
on_save_returns_one(count, cb, stream, nat, natRet) ==
    LET e == save_extension(count, cb, stream)
        o == original_serialize(e.stream, nat, natRet)
    IN  IF e.status = "panic"
        THEN [status |-> "panic", out |-> e.stream.buf, ret |-> 0, blockN |-> e.blockN,
              natOut |-> <<>>, log |-> e.log]
        ELSE IF e.status = "short"
        THEN [status |-> "done", out |-> e.stream.buf, ret |-> 1, blockN |-> e.blockN,
              natOut |-> <<>>, log |-> e.log]
        ELSE [status |-> "done", out |-> o.stream.buf, ret |-> 1, blockN |-> e.blockN,
              natOut |-> o.written, log |-> e.log \o <<"native">>]

\* the closure on_save installs over EquipGameData's serializer
on_save(count, cb, stream, nat, natRet) ==
    LET e == save_extension(count, cb, stream)
        o == original_serialize(e.stream, nat, natRet)
    IN  IF e.status = "panic"
        THEN [status |-> "panic", out |-> e.stream.buf, ret |-> 0, blockN |-> e.blockN,
              natOut |-> <<>>, log |-> e.log]
        ELSE IF e.status = "short"
        THEN [status |-> "done", out |-> e.stream.buf, ret |-> 1, blockN |-> e.blockN,
              natOut |-> <<>>, log |-> e.log]
        ELSE [status |-> "done", out |-> o.stream.buf, ret |-> o.ret, blockN |-> e.blockN,
              natOut |-> o.written, log |-> e.log \o <<"native">>]

(* dlio: a memory input stream is a byte string and a position in it *)
Remaining(s) == Len(s.bytes) - s.pos

\* std::io::Read::read into a buffer of n bytes: as many as remain, at most n
read(s, n) ==
    LET k == Min(n, Remaining(s))
    IN  [stream |-> [s EXCEPT !.pos = s.pos + k],
         data   |-> SubSeq(s.bytes, s.pos + 1, s.pos + k),
         n      |-> k]

\* std::io::Seek::seek(SeekFrom::Start(p))
seek(s, p) == [s EXCEPT !.pos = p]

\* read_delimited: the length prefix, then exactly that many bytes; Err when the stream ends early
read_delimited(s) ==
    LET p    == read(s, LenPrefixWidth)
        want == FromU32LE(p.data)
        d    == read(p.stream, want)
    IN  IF p.n # LenPrefixWidth THEN [ok |-> FALSE, stream |-> p.stream, data |-> <<>>]
        ELSE IF d.n # want THEN [ok |-> FALSE, stream |-> d.stream, data |-> <<>>]
        ELSE [ok |-> TRUE, stream |-> d.stream, data |-> d.data]

\* the game's own deserializer: fills the context (its normal_items_count becomes
\* natCount), consumes the stream and reports a status
original_deserialize(s, natRet, natCount) ==
    [stream |-> seek(s, Len(s.bytes)), count |-> natCount, ret |-> natRet]

\* one call observed during a load event, with the stream position at the time of the call
CallbackEv(kind, data, pos) == [ev |-> "callback", kind |-> kind, data |-> data, pos |-> pos]

NativeEv(pos) == [ev |-> "native", kind |-> "", data |-> <<>>, pos |-> pos]

\* whether the bytes the header read returned are the magic header
has_saved_data(r) == r.n = HeaderLen /\ r.data = HEADER

\* load_prologue that leaves the stream where the header read left it
load_prologue_no_rewind(stream) ==
    LET r   == read(stream, HeaderLen)
        has == has_saved_data(r)
        d   == read_delimited(r.stream)
    IN  IF has
        THEN [has |-> TRUE, ok |-> d.ok, probeN |-> r.n, stream |-> d.stream,
              log |-> IF d.ok THEN <<CallbackEv("SavedData", d.data, d.stream.pos)>> ELSE <<>>]
        ELSE [has |-> FALSE, ok |-> TRUE, probeN |-> r.n, stream |-> r.stream, log |-> <<>>]

\* on_load, before the game's deserializer runs: the header read, then the block and
\* the SavedData callback, or the seek back
load_prologue(stream) ==
    LET before_header == stream.pos
        r   == read(stream, HeaderLen)
        has == has_saved_data(r)
        d   == read_delimited(r.stream)
    IN  IF has
        THEN [has |-> TRUE, ok |-> d.ok, probeN |-> r.n, stream |-> d.stream,
              log |-> IF d.ok THEN <<CallbackEv("SavedData", d.data, d.stream.pos)>> ELSE <<>>]
        ELSE [has |-> FALSE, ok |-> TRUE, probeN |-> r.n,
              stream |-> seek(r.stream, before_header), log |-> <<>>]

\* load_epilogue that classifies every load, also one that delivered SavedData
load_epilogue_always(has, count, pos) ==
    <<CallbackEv(IF is_main_menu(count) THEN "MainMenu" ELSE "NoSavedData", <<>>, pos)>>

\* on_load, after the game's deserializer succeeded: the callback of a load without saved data
load_epilogue(has, count, pos) ==
    IF ~has
    THEN <<CallbackEv(IF is_main_menu(count) THEN "MainMenu" ELSE "NoSavedData", <<>>, pos)>>
    ELSE <<>>

\* on_load that goes on as if the game's deserializer had succeeded
on_load_ignoring_failure(stream, natRet, natCount) ==
    LET p == load_prologue(stream)
        o == original_deserialize(p.stream, natRet, natCount)
    IN  IF ~p.ok
        THEN [status |-> "panic", has |-> p.has, probeN |-> p.probeN, ret |-> 0, count |-> 0,
              log |-> p.log]
        ELSE [status |-> "done", has |-> p.has, probeN |-> p.probeN, ret |-> 1,
              count |-> o.count,
              log |-> p.log \o <<NativeEv(p.stream.pos)>>
                      \o load_epilogue(p.has, o.count, o.stream.pos)]

\* the closure on_load installs over EquipGameData's deserializer
on_load(stream, natRet, natCount) ==
    LET p == load_prologue(stream)
        o == original_deserialize(p.stream, natRet, natCount)
    IN  IF ~p.ok
        THEN [status |-> "panic", has |-> p.has, probeN |-> p.probeN, ret |-> 0, count |-> 0,
              log |-> p.log]
        ELSE IF o.ret = 0
        THEN [status |-> "done", has |-> p.has, probeN |-> p.probeN, ret |-> 0,
              count |-> o.count, log |-> p.log \o <<NativeEv(p.stream.pos)>>]
        ELSE [status |-> "done", has |-> p.has, probeN |-> p.probeN, ret |-> 1,
              count |-> o.count,
              log |-> p.log \o <<NativeEv(p.stream.pos)>>
                      \o load_epilogue(p.has, o.count, o.stream.pos)]

----------------------------------------------------------------------------
(* The inputs of the save and load events *)

\* normal_items_count of the context handed to a hook
CountVals == {0, 11, 12, 13}

\* what the game's serializer and deserializer return (a usize; 0 is failure)
NatRets == {0, 1, 2}

Payloads == SeqsUpTo({0, 102}, MaxPayloadLen)

CallbackResults == {None} \cup {Some(p) : p \in Payloads}

\* native data, among it one that happens to begin like an extended save
NativeData == SeqsUpTo({1}, MaxNativeLen) \cup {HEADER \o Delimited(<<9>>) \o <<1>>}

\* bytes the game wrote to the stream before it called the serializer
Pres == {<<>>, <<7>>}

\* the room left in the output stream when the hook is entered
Rooms == {HeaderLen - 1, HeaderLen + LenPrefixWidth, HeaderLen + LenPrefixWidth + 1, SaveCeiling}

\* save regions that no on_save event wrote: vanilla, damaged or cut short
ForeignBodies ==
    { <<>>, <<1>>, Take(HEADER, HeaderLen - 1), HEADER,
      [HEADER EXCEPT ![HeaderLen] = 0] \o Delimited(<<5>>) \o <<1>>,
      HEADER \o <<1, 0, 0>>,
      HEADER \o U32LE(2) \o <<5>>,
      HEADER \o Delimited(<<>>),
      HEADER \o Delimited(<<5>>) \o <<1>> }

NoSave ==
    [status |-> "none", count |-> 0, cb |-> None, pre |-> <<>>, cap |-> 0, nat |-> <<>>,
     natRet |-> 0, out |-> <<>>, ret |-> 0, blockN |-> 0, natOut |-> <<>>, log |-> <<>>]

NoLoad ==
    [status |-> "none", entry |-> 0, fromSave |-> FALSE, natRet |-> 0, has |-> FALSE,
     probeN |-> 0, ret |-> 0, count |-> 0, log |-> <<>>]

SaveInit ==
    /\ file = [bytes |-> <<>>, entry |-> 0]
    /\ fileFromSave = FALSE
    /\ sv = NoSave
    /\ ld = NoLoad
    /\ crashed = FALSE
    /\ phase = "fresh"

\* the game serializes an EquipGameData: the on_save hook runs
Save(count, cb, pre, room, nat, natRet) ==
    /\ ~crashed
    /\ phase = "fresh"
    /\ phase' = "stored"
    /\ LET r == on_save(count, cb, [buf |-> pre, cap |-> Len(pre) + room], nat, natRet)
       IN  /\ sv' = [status |-> r.status, count |-> count, cb |-> cb, pre |-> pre,
                     cap |-> Len(pre) + room, nat |-> nat, natRet |-> natRet,
                     out |-> r.out, ret |-> r.ret, blockN |-> r.blockN,
                     natOut |-> r.natOut, log |-> r.log]
           /\ file' = [bytes |-> r.out, entry |-> Len(pre)]
           /\ crashed' = (r.status = "panic")
    /\ fileFromSave' = TRUE
    /\ ld' = NoLoad

\* a save region written by something else is put in place
ForeignFile(pre, body) ==
    /\ ~crashed
    /\ phase = "fresh"
    /\ phase' = "stored"
    /\ file' = [bytes |-> pre \o body, entry |-> Len(pre)]
    /\ fileFromSave' = FALSE
    /\ ld' = NoLoad
    /\ UNCHANGED <<sv, crashed>>

\* the game deserializes an EquipGameData from the save region: the on_load hook runs
Load(natRet, natCount) ==
    /\ ~crashed
    /\ phase # "fresh"
    /\ phase' = "loaded"
    /\ LET r == on_load([bytes |-> file.bytes, pos |-> file.entry], natRet, natCount)
       IN  /\ ld' = [status |-> r.status, entry |-> file.entry, fromSave |-> fileFromSave,
                     natRet |-> natRet, has |-> r.has, probeN |-> r.probeN, ret |-> r.ret,
                     count |-> r.count, log |-> r.log]
           /\ crashed' = (r.status = "panic")
    /\ UNCHANGED <<file, fileFromSave, sv>>

\* the game is started anew: the hooks keep nothing from one run to the next
Restart ==
    /\ phase # "fresh"
    /\ file' = [bytes |-> <<>>, entry |-> 0]
    /\ fileFromSave' = FALSE
    /\ sv' = NoSave
    /\ ld' = NoLoad
    /\ crashed' = FALSE
    /\ phase' = "fresh"

SaveNext ==
    \/ \E count \in CountVals, cb \in CallbackResults, pre \in Pres, room \in Rooms,
          nat \in NativeData, natRet \in NatRets :
            Save(count, cb, pre, room, nat, natRet)
    \/ \E pre \in Pres, body \in ForeignBodies : ForeignFile(pre, body)
    \/ \E natRet \in NatRets, natCount \in CountVals : Load(natRet, natCount)
    \/ Restart

----------------------------------------------------------------------------
(* util/input.rs: InputBlocker::get_instance *)

Threads == 1..NumThreads

\* inputs_and_rvas by position: GamePad, Keyboard, Mouse (the bit's ilog2)
Devices == 0..2

InputInit ==
    /\ pc = [t \in Threads |-> "idle"]
    /\ calls = [t \in Threads |-> 0]
    /\ idx = [t \in Threads |-> 0]
    /\ hooks = [t \in Threads |-> {}]
    /\ mutexOwner = 0
    /\ blockerSet = FALSE
    /\ installed = [d \in Devices |-> 0]
    /\ installs = [d \in Devices |-> 0]
    /\ hookFailed = FALSE

\* a thread calls get_instance
Call(t) ==
    /\ pc[t] = "idle"
    /\ calls[t] < MaxCalls
    /\ calls' = [calls EXCEPT ![t] = @ + 1]
    /\ pc' = [pc EXCEPT ![t] = "get"]
    /\ UNCHANGED <<idx, hooks, mutexOwner, blockerSet, installed, installs, hookFailed>>

\* if let Some(blocker) = INPUT_BLOCKER.get() { return Ok(blocker) }
GetFast(t) ==
    /\ pc[t] = "get"
    /\ pc' = [pc EXCEPT ![t] = IF blockerSet THEN "idle" ELSE "lock"]
    /\ UNCHANGED <<calls, idx, hooks, mutexOwner, blockerSet, installed, installs, hookFailed>>

\* INITIALIZING_INPUT_BLOCKER.lock(): blocks until the mutex is free; then the body starts
Lock(t) ==
    /\ pc[t] = "lock"
    /\ mutexOwner = 0
    /\ mutexOwner' = t
    /\ idx' = [idx EXCEPT ![t] = 0]
    /\ hooks' = [hooks EXCEPT ![t] = {}]
    /\ pc' = [pc EXCEPT ![t] = "install"]
    /\ UNCHANGED <<calls, blockerSet, installed, installs, hookFailed>>

\* one turn of the loop, hook_closure_retn returning Ok: the trampoline is in place
InstallOk(t) ==
    /\ pc[t] = "install"
    /\ installed' = [installed EXCEPT ![idx[t]] = @ + 1]
    /\ installs' = [installs EXCEPT ![idx[t]] = @ + 1]
    /\ hooks' = [hooks EXCEPT ![t] = @ \cup {idx[t]}]
    /\ idx' = [idx EXCEPT ![t] = @ + 1]
    /\ pc' = [pc EXCEPT ![t] = IF idx[t] + 1 = Cardinality(Devices) THEN "publish" ELSE "install"]
    /\ UNCHANGED <<calls, mutexOwner, blockerSet, hookFailed>>

\* one turn of the loop, hook_closure_retn returning Err: ? returns it; the hooks array
\* and the guard are dropped, which removes the hooks of this call and frees the mutex
InstallErr(t) ==
    /\ pc[t] = "install"
    /\ installed' = [d \in Devices |-> IF d \in hooks[t] THEN installed[d] - 1 ELSE installed[d]]
    /\ hooks' = [hooks EXCEPT ![t] = {}]
    /\ hookFailed' = TRUE
    /\ mutexOwner' = 0
    /\ pc' = [pc EXCEPT ![t] = "idle"]
    /\ UNCHANGED <<calls, idx, blockerSet, installs>>

\* std::mem::forget(hooks); let _ = INPUT_BLOCKER.set(..)
Publish(t) ==
    /\ pc[t] = "publish"
    /\ hooks' = [hooks EXCEPT ![t] = {}]
    /\ blockerSet' = TRUE
    /\ pc' = [pc EXCEPT ![t] = "return"]
    /\ UNCHANGED <<calls, idx, mutexOwner, installed, installs, hookFailed>>

\* Ok(INPUT_BLOCKER.wait()): the guard is dropped on return
Return(t) ==
    /\ pc[t] = "return"
    /\ mutexOwner' = 0
    /\ pc' = [pc EXCEPT ![t] = "idle"]
    /\ UNCHANGED <<calls, idx, hooks, blockerSet, installed, installs, hookFailed>>

InputNext ==
    \E t \in Threads :
        \/ Call(t)
        \/ GetFast(t)
        \/ Lock(t)
        \/ InstallOk(t)
        \/ InstallErr(t)
        \/ Publish(t)
        \/ Return(t)

\* the state in which one call of get_instance, by thread 1, has returned Ok and no
\* other call was made: the three hooks are in place and INPUT_BLOCKER is set
InstanceReady ==
    /\ pc = [t \in Threads |-> "idle"]
    /\ calls = [t \in Threads |-> IF t = 1 THEN 1 ELSE 0]
    /\ idx = [t \in Threads |-> IF t = 1 THEN Cardinality(Devices) ELSE 0]
    /\ hooks = [t \in Threads |-> {}]
    /\ mutexOwner = 0
    /\ blockerSet = TRUE
    /\ installed = [d \in Devices |-> 1]
    /\ installs = [d \in Devices |-> 1]
    /\ hookFailed = FALSE

----------------------------------------------------------------------------
(* util/input.rs: InputFlags, the blocked set and the hook closure *)

RECURSIVE BitAnd(_, _)
BitAnd(a, b) ==
    IF a = 0 \/ b = 0 THEN 0
    ELSE (a % 2) * (b % 2) + 2 * BitAnd(a \div 2, b \div 2)

RECURSIVE BitOr(_, _)
BitOr(a, b) ==
    IF a = 0 THEN b
    ELSE IF b = 0 THEN a
    ELSE (IF a % 2 = 1 \/ b % 2 = 1 THEN 1 ELSE 0) + 2 * BitOr(a \div 2, b \div 2)

\* the largest u8
U8Max == 255

\* !x on a u8
BitNot8(x) == U8Max - x

\* InputFlags: GamePad = 0b001, Keyboard = 0b010, Mouse = 0b100
Flag(d) == 2 ^ d

\* InputFlags::all().bits()
AllFlags == BitOr(Flag(0), BitOr(Flag(1), Flag(2)))

\* the values of InputFlags built from its named flags
InputFlags == 0..AllFlags

\* bitflags: complement() is from_bits_truncate(!bits)
complement(f) == BitAnd(BitNot8(f), AllFlags)

\* bitflags: contains(other) is bits & other == other
contains(f, other) == BitAnd(f, other) = other

\* the inputs a flags value selects, as a set of devices
DevicesOf(f) == {d \in Devices : contains(f, Flag(d))}

\* block: self.0.fetch_or(inputs.bits())
block(bits, inputs) == BitOr(bits, inputs)

\* block_only: self.0.store(inputs.bits())
block_only(bits, inputs) == inputs

unblock_without_complement(bits, inputs) == BitAnd(bits, inputs)

\* unblock: self.0.fetch_and(inputs.complement().bits())
unblock(bits, inputs) == BitAnd(bits, complement(inputs))

hook_closure_inverted(bits, input, args, origRet) ==
    IF contains(bits, input)
    THEN [ret |-> origRet, passed |-> <<args>>]
    ELSE [ret |-> 0, passed |-> <<>>]

\* the closure given to hook_closure_retn, once INPUT_BLOCKER.wait() has returned:
\* bits is the value loaded from the AtomicU8, input the flag of the hooked device;
\* passed lists the argument pairs with which original was invoked
hook_closure(bits, input, args, origRet) ==
    IF contains(bits, input)
    THEN [ret |-> 0, passed |-> <<>>]
    ELSE [ret |-> origRet, passed |-> <<args>>]

\* (rcx, rdx) of a call of a should-block-input function
HookArgs == {<<1, 2>>, <<3, 4>>}

\* what the game's own function answers
OrigRets == {0, 1}

NoHook == [dev |-> -1]

NoOp == [op |-> "none"]

GameInit ==
    /\ gamePc = "out"
    /\ gameDev = 0
    /\ lastHook = NoHook

BlockInit ==
    /\ blocked = 0
    /\ lastOp = NoOp

\* the game calls the should-block-input function of device d, which is hooked: the
\* closure starts and reaches INPUT_BLOCKER.wait()
HookEnter(d) ==
    /\ gamePc = "out"
    /\ installed[d] > 0
    /\ gamePc' = "wait"
    /\ gameDev' = d
    /\ UNCHANGED lastHook

\* INPUT_BLOCKER.wait() returns, which it does only once INPUT_BLOCKER is set; the
\* closure loads the bits and answers
HookBody(args, origRet) ==
    /\ gamePc = "wait"
    /\ blockerSet
    /\ lastHook' = [dev |-> gameDev, bits |-> blocked, args |-> args, origRet |-> origRet,
                    out |-> hook_closure(blocked, Flag(gameDev), args, origRet)]
    /\ gamePc' = "out"
    /\ UNCHANGED gameDev

GameNext ==
    \/ \E d \in Devices : HookEnter(d)
    \/ \E args \in HookArgs, origRet \in OrigRets : HookBody(args, origRet)

\* a holder of the instance calls block(inputs)
Block(inputs) ==
    /\ blockerSet
    /\ blocked' = block(blocked, inputs)
    /\ lastOp' = [op |-> "block", inputs |-> inputs, before |-> blocked]

\* a holder of the instance calls unblock(inputs)
Unblock(inputs) ==
    /\ blockerSet
    /\ blocked' = unblock(blocked, inputs)
    /\ lastOp' = [op |-> "unblock", inputs |-> inputs, before |-> blocked]

\* a holder of the instance calls block_only(inputs)
BlockOnly(inputs) ==
    /\ blockerSet
    /\ blocked' = block_only(blocked, inputs)
    /\ lastOp' = [op |-> "block_only", inputs |-> inputs, before |-> blocked]

BlockNext ==
    \E inputs \in InputFlags :
        \/ Block(inputs)
        \/ Unblock(inputs)
        \/ BlockOnly(inputs)

----------------------------------------------------------------------------
(* Values of the value-level functions *)

NoArg == [kind |-> "none"]

NoRes == [op |-> "none"]

Ok(v) == [ok |-> TRUE, v |-> v]

Err == [ok |-> FALSE]

\* the function panicked
Panic == "panic"

(* A u32 is kept as its two parts [tag, low]: tag is bits 31..28, low is bits  *)
(* 27..0. Both item IDs and field-instance selectors cut the word there.       *)

\* width of a u32
WordBits == 32

\* the bit at which the tag starts
TagShift == 28

\* 0x0FFFFFFF as a number
LowMax == 2 ^ TagShift - 1

\* the largest tag
TagMax == 2 ^ (WordBits - TagShift) - 1

U32(tag, low) == [tag |-> tag, low |-> low]

\* x & 0xF0000000
MaskHigh(x) == U32(x.tag, 0)

\* x & 0x0FFFFFFF
MaskLow(x) == U32(0, x.low)

\* x >> 28, a number
Shr28(x) == x.tag

\* (n as u32) << 28: the bits that leave the word are lost
Shl28(n) == U32(n % (TagMax + 1), 0)

\* a | b
U32Or(a, b) == U32(BitOr(a.tag, b.tag), BitOr(a.low, b.low))

----------------------------------------------------------------------------
(* sprj/item.rs *)

ItemCategory == {"Weapon", "Protector", "Accessory", "GemAsGoods", "Goods", "Gem"}

\* category as u32
Discriminant(category) ==
    CASE category = "Weapon" -> 0
      [] category = "Protector" -> 1
      [] category = "Accessory" -> 2
      [] category = "GemAsGoods" -> 3
      [] category = "Goods" -> 4
      [] category = "Gem" -> 8

\* impl TryFrom<u8> for ItemCategory
ItemCategory_try_from(value) ==
    CASE value = 0 -> Ok("Weapon")
      [] value = 1 -> Ok("Protector")
      [] value = 2 -> Ok("Accessory")
      [] value = 3 -> Ok("GemAsGoods")
      [] value = 4 -> Ok("Goods")
      [] value = 8 -> Ok("Gem")
      [] OTHER -> Err

\* CategorizedItemID::category
category(self) ==
    LET m == MaskHigh(self)
    IN  CASE m = U32(0, 0) -> "Weapon"
          [] m = U32(1, 0) -> "Protector"
          [] m = U32(2, 0) -> "Accessory"
          [] m = U32(3, 0) -> "GemAsGoods"
          [] m = U32(4, 0) -> "Goods"
          [] m = U32(8, 0) -> "Gem"
          [] OTHER -> Panic

\* CategorizedItemID::new_const
new_const(id) == IF category(id) = Panic THEN Panic ELSE id

\* CategorizedItemID::uncategorized
uncategorized(self) == MaskLow(self)

\* impl TryFrom<u32> for CategorizedItemID
CategorizedItemID_try_from(value) ==
    LET byte == Shr28(value)
    IN  IF byte > U8Max THEN Err
        ELSE IF ~ItemCategory_try_from(byte).ok THEN Err
        ELSE Ok(value)

\* MaybeInvalidCategorizedItemID::INVALID
INVALID == U32(TagMax, LowMax)

\* MaybeInvalidCategorizedItemID::as_valid
as_valid(self) ==
    LET r == CategorizedItemID_try_from(self)
    IN  IF r.ok THEN Some(r.v) ELSE None

\* MaybeInvalidCategorizedItemID::is_valid
is_valid(self) ==
    MaskHigh(self) \in {U32(0, 0), U32(1, 0), U32(2, 0), U32(3, 0), U32(4, 0), U32(8, 0)}

from_keeps_raw(value) == value

\* impl From<u32> for MaybeInvalidCategorizedItemID
MaybeInvalidCategorizedItemID_from(value) ==
    IF CategorizedItemID_try_from(value).ok THEN value ELSE INVALID

try_from_accepts_all(uncategorized_) == Ok(uncategorized_)

\* impl TryFrom<u32> for UncategorizedItemID
UncategorizedItemID_try_from(uncategorized_) ==
    IF MaskHigh(uncategorized_) = U32(0, 0) THEN Ok(uncategorized_) ELSE Err

categorize_into_low_bits(self, cat) == U32Or(self, U32(0, Discriminant(cat)))

\* UncategorizedItemID::categorize
categorize(self, cat) == U32Or(self, Shl28(Discriminant(cat)))

\* CategorizedItemID::try_new
try_new(cat, uncategorized_) ==
    LET base == UncategorizedItemID_try_from(uncategorized_)
    IN  IF base.ok THEN Ok(categorize(base.v, cat)) ELSE Err

\* the low parts tried: the EdgeWidth smallest and the EdgeWidth largest
EdgeLows == (0..(EdgeWidth - 1)) \cup ((LowMax - EdgeWidth + 1)..LowMax)

\* the raw u32 values tried
RawIDs == {U32(t, l) : t \in 0..TagMax, l \in EdgeLows}

ItemInit ==
    /\ arg \in {[kind |-> "item", cat |-> c, raw |-> r] : c \in ItemCategory, r \in RawIDs}
    /\ res = NoRes

\* CategorizedItemID::try_new(arg.cat, arg.raw), and what the ID made answers
TryNew ==
    LET x == try_new(arg.cat, arg.raw)
    IN  /\ arg.kind = "item"
        /\ res' = IF x.ok
                  THEN [op |-> "try_new", ok |-> TRUE, value |-> x.v,
                        category |-> category(x.v),
                        ordinal |-> uncategorized(x.v),
                        again |-> IF category(x.v) = Panic THEN Panic
                                  ELSE categorize(uncategorized(x.v), category(x.v))]
                  ELSE [op |-> "try_new", ok |-> FALSE]
        /\ UNCHANGED arg

\* MaybeInvalidCategorizedItemID::from(arg.raw), and what the value made answers
FromRaw ==
    LET m == MaybeInvalidCategorizedItemID_from(arg.raw)
    IN  /\ arg.kind = "item"
        /\ res' = [op |-> "from", value |-> m, is_valid |-> is_valid(m),
                   as_valid |-> as_valid(m)]
        /\ UNCHANGED arg

\* a CategorizedItemID with the bits of arg.raw (as found in game memory, or given to
\* new_const) is decoded
Decode ==
    /\ arg.kind = "item"
    /\ res' = [op |-> "decode", category |-> category(arg.raw), new_const |-> new_const(arg.raw)]
    /\ UNCHANGED arg

ItemNext == TryNew \/ FromRaw \/ Decode

----------------------------------------------------------------------------
(* sprj/field_ins.rs *)

FieldInsType == {"Hit", "Chr", "Obj", "Bullet"}

\* field_ins_type as u8
TypeTag(type) ==
    CASE type = "Hit" -> 0
      [] type = "Chr" -> 1
      [] type = "Obj" -> 2
      [] type = "Bullet" -> 3

\* bitfield: the getter of the field msb..lsb (a field lies in one part of the word)
bit_range(x, msb, lsb) ==
    IF lsb >= TagShift
    THEN (x.tag \div 2 ^ (lsb - TagShift)) % 2 ^ (msb - lsb + 1)
    ELSE (x.low \div 2 ^ lsb) % 2 ^ (msb - lsb + 1)

\* bitfield: the setter of the field msb..lsb; value is cut to the field's width
set_bit_range(x, msb, lsb, value) ==
    LET v == value % 2 ^ (msb - lsb + 1)
    IN  IF lsb >= TagShift
        THEN U32(x.tag - bit_range(x, msb, lsb) * 2 ^ (lsb - TagShift)
                       + v * 2 ^ (lsb - TagShift), x.low)
        ELSE U32(x.tag, x.low - bit_range(x, msb, lsb) * 2 ^ lsb + v * 2 ^ lsb)

\* pub u32, index, _: 19, 0
index(s) == bit_range(s, 19, 0)

\* u32, _, set_index: 19, 0
set_index(s, value) == set_bit_range(s, 19, 0, value)

\* pub u32, container, _: 19, 0
container(s) == bit_range(s, 19, 0)

\* u32, _, set_container: 27, 20
set_container(s, value) == set_bit_range(s, 27, 20, value)

\* u8, type_raw, set_type_raw: 31, 28
type_raw(s) == bit_range(s, 31, 28)

set_type_raw(s, value) == set_bit_range(s, 31, 28, value)

\* FieldInsSelector::new
FieldInsSelector_new(type, cont, ind) ==
    set_index(set_container(set_type_raw(U32(0, 0), TypeTag(type)), cont), ind)

\* FieldInsSelector::field_ins_type: mem::transmute of type_raw to FieldInsType. For
\* a tag that is no discriminant this is undefined behaviour: nothing checks the tag,
\* so the build may hand back a FieldInsType that is none of the variants ("no
\* variant"), take it for any of the four, or crash
field_ins_type(s) ==
    IF \E type \in FieldInsType : TypeTag(type) = type_raw(s)
    THEN {type \in FieldInsType : TypeTag(type) = type_raw(s)}
    ELSE {"no variant", "abort"} \cup FieldInsType

\* widths of the index and container fields
IndexBits == 20

ContainerBits == 8

\* the values of an n-bit field tried: the EdgeWidth smallest and largest
EdgeOf(n) == (0..(EdgeWidth - 1)) \cup ((2 ^ n - EdgeWidth)..(2 ^ n - 1))

SelectorInit ==
    /\ arg \in {[kind |-> "selector", type |-> ty, container |-> c, index |-> i, tag |-> tg] :
                  ty \in FieldInsType, c \in EdgeOf(ContainerBits), i \in EdgeOf(IndexBits),
                  tg \in 0..TagMax}
    /\ res = NoRes

\* FieldInsSelector::new(arg.type, arg.container, arg.index), and what the selector
\* made answers
SelectorNew ==
    LET s == FieldInsSelector_new(arg.type, arg.container, arg.index)
    IN  /\ arg.kind = "selector"
        /\ \E t \in field_ins_type(s) :
              res' = [op |-> "new", field_ins_type |-> t, container |-> container(s),
                      index |-> index(s), value |-> s]
        /\ UNCHANGED arg

\* a selector found in game memory (a WorldBlockMapping's), whose tag is arg.tag, is
\* asked for its type
SelectorType ==
    LET s == U32(arg.tag, arg.container * 2 ^ IndexBits + arg.index)
    IN  /\ arg.kind = "selector"
        /\ \E t \in field_ins_type(s) :
              res' = [op |-> "field_ins_type", out |-> t]
        /\ UNCHANGED arg

SelectorNext == SelectorNew \/ SelectorType

----------------------------------------------------------------------------
(* cs/regulation_manager.rs: ParamTable and Parameter<T>                     *)
(* A table is [base, row_info]: the address of the ParamTable and its row    *)
(* directory, a sequence of ParamRowInfo [id, offset]. A row is known by its *)
(* address.                                                                  *)

\* offset of row_info inside ParamTable: 0xa + 2 + 0x4 + 8 + 0x28
RowInfoOffset == 64

\* the address of the row directory of a table
DirectoryBase(table) == table.base + RowInfoOffset

\* usize::saturating_add, in an address space of AddrSpace bytes
saturating_add(a, b) == Min(a + b, AddrSpace - 1)

\* slice::binary_search_by_key(&id, |info| info.id) on infos[left..right]
RECURSIVE binary_search_by_key(_, _, _, _)
binary_search_by_key(infos, id, left, right) ==
    IF left >= right THEN Err
    ELSE LET mid == left + (right - left) \div 2
         IN  IF infos[mid + 1].id = id THEN Ok(mid)
             ELSE IF infos[mid + 1].id < id
                  THEN binary_search_by_key(infos, id, mid + 1, right)
                  ELSE binary_search_by_key(infos, id, left, mid)

\* ParamTable::row_info: the first length entries
row_info(table) == table.row_info

ptr_for_id_from_directory(table, id) ==
    LET infos == row_info(table)
        found == binary_search_by_key(infos, id, 0, Len(infos))
    IN  IF found.ok
        THEN Some(saturating_add(DirectoryBase(table), infos[found.v + 1].offset))
        ELSE None

\* Parameter::ptr_for_id
ptr_for_id(table, id) ==
    LET infos == row_info(table)
        found == binary_search_by_key(infos, id, 0, Len(infos))
    IN  IF found.ok
        THEN Some(saturating_add(table.base, infos[found.v + 1].offset))
        ELSE None

\* Parameter::get: the row at the pointer
get(table, id) == ptr_for_id(table, id)

\* Parameter::get_mut: the row at the pointer
get_mut(table, id) == ptr_for_id(table, id)

\* row ids that occur in the tables tried, and the ids looked up
RowIds == {1, 3, 5, 7}

LookupIds == 0..8

\* addresses of the tables tried
TableBases == {256, 512}

\* offsets of row data from the table's base: past the directory
RowOffsets == {RowInfoOffset + 96, RowInfoOffset + 128}

\* the row directories tried: up to MaxRows entries, ascending by unique id
Directories ==
    {d \in UNION {[1..n -> [id : RowIds, offset : RowOffsets]] : n \in 0..MaxRows} :
        \A i \in 1..(Len(d) - 1) : d[i].id < d[i + 1].id}

TableInit ==
    /\ arg \in {[kind |-> "table", table |-> [base |-> b, row_info |-> d], id |-> i] :
                  b \in TableBases, d \in Directories, i \in LookupIds}
    /\ res = NoRes

\* Parameter::get(arg.id)
Get ==
    /\ arg.kind = "table"
    /\ res' = [op |-> "get", out |-> get(arg.table, arg.id)]
    /\ UNCHANGED arg

\* Parameter::get_mut(arg.id)
GetMut ==
    /\ arg.kind = "table"
    /\ res' = [op |-> "get_mut", out |-> get_mut(arg.table, arg.id)]
    /\ UNCHANGED arg

\* size_of::<ParamRowInfo>()
RowInfoSize == 24

\* size_of::<T>() of the rows tried
RowSize == 32

\* ParamTable::data
data(table) == saturating_add(table.base, Len(row_info(table)) * RowInfoSize)

\* Parameter::as_slice: the addresses of its elements
Parameter_as_slice(table) ==
    [i \in 1..Len(row_info(table)) |-> data(table) + (i - 1) * RowSize]

\* Parameter::iter: the (id, address of the row) pairs it yields
Parameter_iter(table) ==
    [i \in 1..Len(row_info(table)) |->
        <<row_info(table)[i].id, saturating_add(table.base, row_info(table)[i].offset)>>]

\* ParamTable::data(), Parameter::as_slice() and Parameter::iter() on the table
Data ==
    /\ arg.kind = "table"
    /\ res' = [op |-> "data", out |-> data(arg.table),
               slice |-> Parameter_as_slice(arg.table),
               pairs |-> Parameter_iter(arg.table)]
    /\ UNCHANGED arg

\* the names a table can carry and a ParamDef can ask for
Names == {"EquipParamWeapon", "EquipParamGoods"}

\* bytes that are no valid UTF-8 string
NotUtf8 == "not utf-8"

\* offsets of the name from the beginning of the table
NameOffsets == {64, 128}

\* addresses of the local variable self of a call of name(): on the stack
StackAddrs == {2048, 3072}

\* CStr::from_ptr(addr).to_str().unwrap(): the string that starts at addr, where
\* stored starts at the table's base + name_offset and other bytes start
\* everywhere else
from_ptr(a, addr) ==
    LET bytes == IF addr = a.table.base + a.table.name_offset THEN a.stored ELSE a.other
    IN  IF bytes = NotUtf8 THEN Panic ELSE bytes

\* ParamTable::name: (&raw const self) is the address of the local variable self
name(a) == from_ptr(a, a.local + a.table.name_offset)

\* ParamTable::as_param::<T>, T::NAME being a.wanted
as_param(a) ==
    IF name(a) = Panic THEN Panic
    ELSE IF name(a) = a.wanted THEN "Some" ELSE "None"

NameInit ==
    /\ arg \in {[kind |-> "name", table |-> [base |-> b, name_offset |-> o],
                 stored |-> n, local |-> l, other |-> x, wanted |-> w] :
                  b \in TableBases, o \in NameOffsets, n \in Names, l \in StackAddrs,
                  x \in Names \cup {NotUtf8}, w \in Names}
    /\ res = NoRes

\* ParamTable::name() and ParamTable::as_param::<T>() on the table
AsParam ==
    /\ arg.kind = "name"
    /\ res' = [op |-> "as_param", name |-> name(arg), out |-> as_param(arg)]
    /\ UNCHANGED arg

TableNext == Get \/ GetMut \/ Data \/ AsParam

----------------------------------------------------------------------------
(* Game memory that no model step has set up *)

NoPool == [kind |-> "none"]

NoIter == [kind |-> "none"]

NoSlot == [kind |-> "none"]

----------------------------------------------------------------------------
(* sprj/player_game_data.rs: InventoryItemsData and its iterators;           *)
(* sprj/world_chr_man.rs: ChrSet and its iterator.                           *)
(* inv.mem is the game's memory that holds the slots; a slot is known by its *)
(* address 1..Len(inv.mem). The key items array lies at key_items_head, the  *)
(* normal items array behind it.                                             *)

\* an entry the game has cleared
EmptyEntry == [gaitem_handle |-> 0, item_id |-> INVALID]

\* the contents of an inventory slot tried: cleared, an item, an item whose handle is 0
InventoryEntries ==
    {EmptyEntry,
     [gaitem_handle |-> 1, item_id |-> U32(0, 1)],
     [gaitem_handle |-> 0, item_id |-> U32(4, 1)]}

\* the contents of a ChrSet slot tried: the leading chr pointer is null or not
ChrSetEntries == {[chr |-> 0], [chr |-> 1]}

is_empty_only_sentinel(self) == self.item_id = INVALID

\* EquipInventoryDataListEntry::is_empty
is_empty(self) == ~is_valid(self.item_id)

\* EquipInventoryDataListEntry::as_non_empty
as_non_empty(self) == IF ~is_empty(self) THEN Some(self) ELSE None

\* EquipInventoryDataListEntry::as_non_empty_mut
as_non_empty_mut(self) == IF ~is_empty(self) THEN Some(self) ELSE None

\* impl IsEmpty for ChrSetEntry: the first usize of the entry is 0
ChrSetEntry_is_empty(value) == value.chr = 0

\* slice::from_raw_parts(head, capacity): the addresses of its elements
from_raw_parts(head, capacity) == [i \in 1..capacity |-> head + i]

key_entries_by_count(self) == from_raw_parts(self.key_items_head, self.key_items_count)

\* InventoryItemsData::key_entries
key_entries(self) == from_raw_parts(self.key_items_head, self.key_items_capacity)

\* InventoryItemsData::normal_entries
normal_entries(self) == from_raw_parts(self.normal_items_head, self.normal_items_capacity)

\* InventoryItemsData::items: key_entries().iter().chain(normal_entries().iter())
items(self) == key_entries(self) \o normal_entries(self)

\* InventoryItemsData::items_mut: the same two slices, made mutable
items_mut(self) ==
    from_raw_parts(self.key_items_head, self.key_items_capacity)
        \o from_raw_parts(self.normal_items_head, self.normal_items_capacity)

\* ChrSet::entries
ChrSet_entries(self) == from_raw_parts(self.entries, self.capacity)

slot_read_at_creation(mem, snap, a) == snap[a]

\* what an iterator finds at address a: the slice iterator hands out a reference
\* into the game's memory, which is read when the entry is examined
slot_read(mem, snap, a) == mem[a]

\* the entries of a group of an inventory that hold an item
CountOf(mem, head, capacity) ==
    Cardinality({i \in 1..capacity : mem[head + i] # EmptyEntry})

Inventory(k, n, mem) ==
    [kind |-> "inventory", mem |-> mem, writes |-> 0,
     key_items_head |-> 0, key_items_capacity |-> k,
     key_items_count |-> CountOf(mem, 0, k),
     normal_items_head |-> k, normal_items_capacity |-> n,
     normal_items_count |-> CountOf(mem, k, n)]

InventoryInit ==
    /\ inv \in UNION {{Inventory(k, n, mem) : mem \in [1..(k + n) -> InventoryEntries]} :
                        k \in 0..MaxKeySlots, n \in 0..MaxNormalSlots}
    /\ iter = NoIter

ChrSetInit ==
    /\ inv \in {[kind |-> "chrset", mem |-> mem, writes |-> 0,
                   entries |-> 0, capacity |-> Len(mem)] :
                  mem \in UNION {[1..len -> ChrSetEntries] : len \in 0..MaxNormalSlots}}
    /\ iter = NoIter

NewIter(kind, addrs) ==
    [kind |-> kind, addrs |-> addrs, pos |-> 0, yielded |-> <<>>, seen |-> <<>>,
     snap |-> inv.mem, done |-> FALSE]

\* InventoryItemsData::items()
Items ==
    /\ inv.kind = "inventory" /\ iter = NoIter
    /\ iter' = NewIter("items", items(inv))
    /\ UNCHANGED inv

\* InventoryItemsData::items_mut()
ItemsMut ==
    /\ inv.kind = "inventory" /\ iter = NoIter
    /\ iter' = NewIter("items_mut", items_mut(inv))
    /\ UNCHANGED inv

\* ChrSet::iter()
ChrSetIter ==
    /\ inv.kind = "chrset" /\ iter = NoIter
    /\ iter' = NewIter("chr_iter", ChrSet_entries(inv))
    /\ UNCHANGED inv

\* whether ItemsIterator / ItemsIteratorMut passes over entry e
Skips(kind, e) ==
    CASE kind = "items" -> ~as_non_empty(e).some
      [] kind = "items_mut" -> ~as_non_empty_mut(e).some

\* one turn of the loop of ItemsIterator::next / ItemsIteratorMut::next: the chained
\* slice iterator gives its next entry, which is yielded if it is not empty; at the
\* end of the slices next() gives None. seen keeps what the game's memory held in
\* that slot at this moment
Advance ==
    /\ iter # NoIter /\ iter.kind \in {"items", "items_mut"} /\ ~iter.done
    /\ IF iter.pos >= Len(iter.addrs)
       THEN iter' = [iter EXCEPT !.done = TRUE]
       ELSE LET a == iter.addrs[iter.pos + 1]
                e == slot_read(inv.mem, iter.snap, a)
            IN  iter' = [iter EXCEPT
                            !.pos = @ + 1,
                            !.yielded = IF Skips(iter.kind, e) THEN @
                                        ELSE Append(@, [addr |-> a, entry |-> e]),
                            !.seen = Append(@, inv.mem[iter.pos + 1])]
    /\ UNCHANGED inv

\* ChrSetIter::next, through NonEmptyIter::next: the slice iterator gives its next
\* entry, which is passed over when IsEmpty::is_empty says so
NonEmptyIter_next ==
    /\ iter # NoIter /\ iter.kind = "chr_iter" /\ ~iter.done
    /\ IF iter.pos >= Len(iter.addrs)
       THEN iter' = [iter EXCEPT !.done = TRUE]
       ELSE LET a == iter.addrs[iter.pos + 1]
                e == slot_read(inv.mem, iter.snap, a)
            IN  iter' = [iter EXCEPT
                            !.pos = @ + 1,
                            !.yielded = IF ChrSetEntry_is_empty(e) THEN @
                                        ELSE Append(@, [addr |-> a, entry |-> e]),
                            !.seen = Append(@, inv.mem[iter.pos + 1])]
    /\ UNCHANGED inv

\* the game, in a thread of its own, stores e in the slot at address a while an
\* iteration is under way (a write before it is another initial content)
ForeignWrite(a, e) ==
    /\ iter # NoIter /\ ~iter.done
    /\ inv.writes < MaxForeignWrites
    /\ inv.mem[a] # e
    /\ inv' = [inv EXCEPT !.mem[a] = e, !.writes = @ + 1]
    /\ UNCHANGED iter

\* the gaitem handles tried
Handles == {0, 1}

\* an EquipInventoryDataListEntry in game memory whose item_id has the bits of
\* arg.raw is asked whether it is empty and for its non-empty views
EntryCheck ==
    /\ arg.kind = "item"
    /\ \E h \in Handles :
          LET e == [gaitem_handle |-> h, item_id |-> arg.raw]
          IN  res' = [op |-> "entry", entry |-> e, is_empty |-> is_empty(e),
                      as_non_empty |-> as_non_empty(e),
                      as_non_empty_mut |-> as_non_empty_mut(e)]
    /\ UNCHANGED arg

PoolNext ==
    \/ Items
    \/ ItemsMut
    \/ ChrSetIter
    \/ Advance
    \/ NonEmptyIter_next
    \/ \E a \in 1..Len(inv.mem) :
          \E e \in (IF inv.kind = "chrset" THEN ChrSetEntries ELSE InventoryEntries) :
              ForeignWrite(a, e)

----------------------------------------------------------------------------
(* FromStatic::instance of GameDataMan, MapItemMan, DLUserInputManager (the  *)
(* address of the pointer slot is kept in a LazyLock) and of FieldArea (the  *)
(* RVA is translated on every call). slot.value is what the game's static    *)
(* pointer slot holds; 0 is null.                                            *)

\* InstanceError::NotFound
NotFound == [ok |-> FALSE, err |-> "NotFound"]

\* InstanceError::Null
NullInstance == [ok |-> FALSE, err |-> "Null"]

\* what the pointer slot may hold: null, or the address of an instance
SlotValues == {0, 1, 2}

\* Program::current().rva_to_va(rva): the address of the slot, if the RVA lies in
\* the executable
rva_to_va(s) == IF s.translates THEN Some(s.at) ELSE None

\* *GAME_DATA_MAN_PTR_VA: the LazyLock runs rva_to_va(..).ok() at its first use
\* and keeps the result
lazy_va(s) == IF ~s.vaSet THEN rva_to_va(s) ELSE s.va

instance_reusing_first(s, va) ==
    IF ~va.some THEN NotFound
    ELSE IF s.first = 0 /\ s.value = 0 THEN NullInstance
    ELSE IF s.first = 0 THEN Ok(s.value)
    ELSE Ok(s.first)

\* instance(), given the address of the slot if there is one: the slot is read and
\* its pointer turned into a reference, or Null
instance(s, va) ==
    IF ~va.some THEN NotFound
    ELSE IF s.value = 0 THEN NullInstance
    ELSE Ok(s.value)

StaticInit ==
    /\ slot \in {[kind |-> k, translates |-> t, at |-> 8, value |-> v, vaSet |-> FALSE, va |-> None, first |-> 0] :
                   k \in {"lazy", "direct"}, t \in BOOLEAN, v \in SlotValues}
    /\ inst = <<>>

\* instance() of GameDataMan, MapItemMan or DLUserInputManager
InstanceLazy ==
    /\ slot.kind = "lazy"
    /\ Len(inst) < MaxInstanceCalls
    /\ LET va == lazy_va(slot)
           out == instance(slot, va)
       IN  /\ inst' = Append(inst, [held |-> slot.value, out |-> out])
           /\ slot' = [slot EXCEPT !.va = va, !.vaSet = TRUE,
                                    !.first = IF @ = 0 /\ out.ok THEN out.v ELSE @]

\* instance() of FieldArea
InstanceDirect ==
    /\ slot.kind = "direct"
    /\ Len(inst) < MaxInstanceCalls
    /\ LET out == instance(slot, rva_to_va(slot))
       IN  /\ inst' = Append(inst, [held |-> slot.value, out |-> out])
           /\ slot' = [slot EXCEPT !.first = IF @ = 0 /\ out.ok THEN out.v ELSE @]

\* the game swaps or nulls the instance (a menu transition, a world load or unload)
ForeignSwap(v) ==
    /\ slot # NoSlot
    /\ slot.value # v
    /\ slot' = [slot EXCEPT !.value = v]
    /\ UNCHANGED inst

StaticNext ==
    \/ InstanceLazy
    \/ InstanceDirect
    \/ \E v \in SlotValues : ForeignSwap(v)

----------------------------------------------------------------------------
(* sprj/item.rs: ItemBuffer *)

\* impl From<CategorizedItemID> for ItemBufferEntry
ItemBufferEntry_from(id) == [id |-> id, quantity |-> 1, durability |-> -1]

\* the entries a buffer is filled with
BufferEntries ==
    {ItemBufferEntry_from(U32(Discriminant(c), 1)) : c \in {"Weapon", "Goods", "Gem"}}

\* ItemBuffer::from(items): a length and the entries allocated after it
ItemBuffer_from(elems) == [length |-> Len(elems), elems |-> elems]

\* ItemBuffer::as_slice
as_slice(self) == SubSeq(self.elems, 1, self.length)

\* ptr::copy(base.add(src), base.add(dst), count) on the entries of a buffer
ptr_copy(elems, src, dst, count) ==
    [k \in 1..Len(elems) |->
        IF k - 1 >= dst /\ k - 1 < dst + count THEN elems[k - dst + src] ELSE elems[k]]

\* Vec::swap_remove in place of the shift
remove_by_swap(self, at) ==
    IF at >= self.length
    THEN [panicked |-> TRUE, ret |-> <<>>, buffer |-> self]
    ELSE [panicked |-> FALSE,
          ret |-> <<self.elems[at + 1]>>,
          buffer |-> [length |-> self.length - 1,
                      elems |-> [self.elems EXCEPT ![at + 1] = self.elems[self.length]]]]

\* ItemBuffer::remove; ret holds the entry returned, if one is
remove(self, at) ==
    IF at >= self.length
    THEN [panicked |-> TRUE, ret |-> <<>>, buffer |-> self]
    ELSE [panicked |-> FALSE,
          ret |-> <<self.elems[at + 1]>>,
          buffer |-> [length |-> self.length - 1,
                      elems |-> ptr_copy(self.elems, at + 1, at,
                                         self.length - at - 1)]]

BufferInit ==
    /\ arg \in {[kind |-> "buffer", buffer |-> ItemBuffer_from(elems)] :
                  elems \in SeqsUpTo(BufferEntries, MaxBufferLen)}
    /\ res = NoRes

\* ItemBuffer::remove(index) on the buffer; a panic is caught by the caller
Remove(at) ==
    /\ arg.kind = "buffer"
    /\ LET r == remove(arg.buffer, at)
       IN /\ res' = [op |-> "remove", at |-> at, before |-> arg.buffer,
                     panicked |-> r.panicked, ret |-> r.ret]
          /\ arg' = [arg EXCEPT !.buffer = r.buffer]

BufferNext == \E at \in 0..MaxBufferLen : Remove(at)

----------------------------------------------------------------------------
(* The #[repr(C)] structs whose sizes the tests assert *)

\* a type as the layout algorithm sees it
Ty(bytesize, alignment) == [size |-> bytesize, align |-> alignment]

u8 == Ty(1, 1)

u16 == Ty(2, 2)

\* u32, i32 and the #[repr(transparent)] wrappers of u32
u32 == Ty(4, 4)

u64 == Ty(8, 8)

\* usize, *mut T, NonNull<T>, Option<NonNull<T>> and OwnedPtr<T>
usize == Ty(8, 8)

\* [T; n]; MaybeUninit<T> is laid out as T
array(t, n) == Ty(t.size * n, t.align)

Max(a, b) == IF a > b THEN a ELSE b

\* the next multiple of alignment at or after offset
align_up(offset, alignment) == ((offset + alignment - 1) \div alignment) * alignment

\* the layout of no fields
Empty == Ty(0, 1)

\* a field placed with no padding before it
extend_packed(l, f) == Ty(l.size + f.size, Max(l.align, f.align))

\* one more field: at the next offset aligned to its alignment
extend(l, f) == Ty(align_up(l.size, f.align) + f.size, Max(l.align, f.align))

\* the total size padded to the alignment of the struct
pad_to_align(l) == Ty(align_up(l.size, l.align), l.align)

RECURSIVE extend_all(_, _)
extend_all(l, fs) == IF fs = <<>> THEN l ELSE extend_all(extend(l, Head(fs)), Tail(fs))

\* the layout of a #[repr(C)] struct with these fields
repr_c(fs) == pad_to_align(extend_all(Empty, fs))

\* cxx_stl::vec::msvc2012::CxxVec<u64> is a type of another crate: three
\* pointers, with or without a pointer to its allocator before them
CxxVecSizes == {24, 32}

CxxVec(v) == Ty(v, 8)

\* sprj/player_game_data.rs
EquipInventoryDataListEntry == <<u32, u32, u32, array(u8, 4)>>

FaceData == <<usize, array(u8, 264), usize>>

InventoryItemListAccessor == <<usize, usize>>

InventoryItemsData ==
    <<u32, u32, usize, u32, u32, usize, u32, array(u8, 20),
      repr_c(InventoryItemListAccessor), repr_c(InventoryItemListAccessor),
      usize, u64, usize, u16, array(u8, 6)>>

EquipInventoryData == <<usize, u64, repr_c(InventoryItemsData), u32, u8, array(u8, 19)>>

EquipGameData ==
    <<usize, array(u8, 28), array(u32, 22), array(u8, 300),
      repr_c(EquipInventoryData), array(u8, 224)>>

PlayerInfo == <<array(u8, 120), array(u16, 17), array(u8, 166)>>

PlayerGameData(v) ==
    <<usize, u64, repr_c(PlayerInfo), array(u8, 216), repr_c(EquipGameData),
      array(u8, 328), repr_c(FaceData), usize, usize, array(u8, 88), CxxVec(v),
      array(u8, 240), usize, usize, array(u8, 32)>>

\* sprj/world_info.rs
WorldAreaInfo == <<usize, array(u8, 3), u8, usize, u32, u32, u32, usize, u8>>

WorldBlockInfo ==
    <<usize, u32, usize, usize, u32, u32, usize, usize, usize, usize, usize, usize,
      usize, u8, array(u8, 3), u8, u32>>

WorldInfo ==
    <<usize, u32, usize, u32, usize, u8, array(repr_c(WorldAreaInfo), 20),
      array(repr_c(WorldBlockInfo), 32), u64>>

\* shared: UnknownStruct<N>
UnknownStruct(n) == repr_c(<<array(u8, n)>>)

WorldInfoOwner ==
    <<repr_c(WorldInfo), u64, u32, usize, u32, u32, u32, usize, u64, u64, u64,
      array(UnknownStruct(264), 20), array(UnknownStruct(1080), 32), u64, u64>>

\* sprj/world_chr_man.rs
WorldAreaChr == <<usize, u64, u32, u64>>

ChrSetEntry == <<usize, u32, u64, usize, u64, usize, usize>>

ChrSet == <<u32, usize, u32>>

\* sprj/world_block.rs
WorldBlockChr ==
    <<usize, array(u64, 14), u32, repr_c(ChrSet), u32, u64, u32, usize, u32,
      array(u64, 5), array(u8, 72), u32>>

\* the structs of the proper_sizes tests
Structs ==
    {"EquipInventoryDataListEntry", "FaceData", "InventoryItemsData",
     "EquipInventoryData", "EquipGameData", "PlayerInfo", "PlayerGameData",
     "WorldAreaInfo", "WorldBlockInfo", "WorldInfo", "WorldInfoOwner",
     "WorldAreaChr", "ChrSetEntry", "ChrSet", "WorldBlockChr"}

\* the declared fields of a struct, in order
FieldsOf(s, v) ==
    CASE s = "EquipInventoryDataListEntry" -> EquipInventoryDataListEntry
      [] s = "FaceData" -> FaceData
      [] s = "InventoryItemsData" -> InventoryItemsData
      [] s = "EquipInventoryData" -> EquipInventoryData
      [] s = "EquipGameData" -> EquipGameData
      [] s = "PlayerInfo" -> PlayerInfo
      [] s = "PlayerGameData" -> PlayerGameData(v)
      [] s = "WorldAreaInfo" -> WorldAreaInfo
      [] s = "WorldBlockInfo" -> WorldBlockInfo
      [] s = "WorldInfo" -> WorldInfo
      [] s = "WorldInfoOwner" -> WorldInfoOwner
      [] s = "WorldAreaChr" -> WorldAreaChr
      [] s = "ChrSetEntry" -> ChrSetEntry
      [] s = "ChrSet" -> ChrSet
      [] s = "WorldBlockChr" -> WorldBlockChr

\* the sizes the proper_sizes tests assert
proper_sizes(s) ==
    CASE s = "EquipInventoryDataListEntry" -> 16
      [] s = "FaceData" -> 280
      [] s = "InventoryItemsData" -> 120
      [] s = "EquipInventoryData" -> 160
      [] s = "EquipGameData" -> 808
      [] s = "PlayerInfo" -> 320
      [] s = "PlayerGameData" -> 2384
      [] s = "WorldAreaInfo" -> 56
      [] s = "WorldBlockInfo" -> 112
      [] s = "WorldInfo" -> 4760
      [] s = "WorldInfoOwner" -> 44688
      [] s = "WorldAreaChr" -> 32
      [] s = "ChrSetEntry" -> 56
      [] s = "ChrSet" -> 24
      [] s = "WorldBlockChr" -> 312

\* a struct about to be laid out
LayoutInit ==
    /\ arg \in {[kind |-> "layout", struct |-> s, vec |-> v] :
                  s \in Structs, v \in CxxVecSizes}
    /\ res = NoRes

\* the compiler starts on the struct
StartLayout ==
    /\ arg.kind = "layout" /\ res = NoRes
    /\ res' = [op |-> "layout", placed |-> 0, l |-> Empty, done |-> FALSE]
    /\ UNCHANGED arg

\* the compiler places the next field
PlaceField ==
    /\ arg.kind = "layout" /\ res.op = "layout" /\ ~res.done
    /\ res.placed < Len(FieldsOf(arg.struct, arg.vec))
    /\ res' = [res EXCEPT !.placed = @ + 1,
                          !.l = extend(@, FieldsOf(arg.struct, arg.vec)[res.placed + 1])]
    /\ UNCHANGED arg

\* every field is placed: size_of is the padded size
FinishLayout ==
    /\ arg.kind = "layout" /\ res.op = "layout" /\ ~res.done
    /\ res.placed = Len(FieldsOf(arg.struct, arg.vec))
    /\ res' = [res EXCEPT !.l = pad_to_align(@), !.done = TRUE]
    /\ UNCHANGED arg

LayoutNext == StartLayout \/ PlaceField \/ FinishLayout

----------------------------------------------------------------------------
(* The specifications *)

\* no value-level function is under study
PureIdle == arg = NoArg /\ res = NoRes

\* the hooks are not yet in use
HooksIdle == SaveInit /\ InputInit /\ GameInit /\ BlockInit

\* no game memory is under study
MemIdle == inv = NoPool /\ iter = NoIter /\ slot = NoSlot /\ inst = <<>>

Init == HooksIdle /\ PureIdle /\ MemIdle

\* the save and load hooks at work
SaveSpec == Init /\ [][SaveNext /\ UNCHANGED <<inputVars, gameVars, blockVars, pureVars, memVars>>]_vars

\* threads calling InputBlocker::get_instance while the game calls the hooked functions
InputStep ==
    \/ InputNext /\ UNCHANGED <<saveVars, gameVars, blockVars, pureVars, memVars>>
    \/ GameNext /\ UNCHANGED <<saveVars, inputVars, blockVars, pureVars, memVars>>

InputSpec == Init /\ [][InputStep]_vars

\* an InputBlocker in use: from the state in which one call of get_instance has
\* returned Ok, its holders block and unblock inputs while the game calls the hooks
BlockerStep ==
    \/ BlockNext /\ UNCHANGED <<saveVars, inputVars, gameVars, pureVars, memVars>>
    \/ GameNext /\ UNCHANGED <<saveVars, inputVars, blockVars, pureVars, memVars>>

BlockerInit == SaveInit /\ InstanceReady /\ GameInit /\ BlockInit /\ PureIdle /\ MemIdle

BlockerSpec == BlockerInit /\ [][BlockerStep]_vars

\* the packed identifiers: item IDs and field-instance selectors made and decoded
CodecStep ==
    \/ ItemNext /\ UNCHANGED <<saveVars, inputVars, gameVars, blockVars, memVars>>
    \/ SelectorNext /\ UNCHANGED <<saveVars, inputVars, gameVars, blockVars, memVars>>
    \/ EntryCheck /\ UNCHANGED <<saveVars, inputVars, gameVars, blockVars, memVars>>

CodecInit == HooksIdle /\ MemIdle /\ (ItemInit \/ SelectorInit)

CodecSpec == CodecInit /\ [][CodecStep]_vars

\* rows of a parameter table looked up by id
TableStep == TableNext /\ UNCHANGED <<saveVars, inputVars, gameVars, blockVars, memVars>>

LookupInit == HooksIdle /\ MemIdle /\ (TableInit \/ NameInit)

TableSpec == LookupInit /\ [][TableStep]_vars

\* iterations over a slot pool that the game writes to
PoolStep == PoolNext /\ UNCHANGED <<saveVars, inputVars, gameVars, blockVars, pureVars, staticVars>>

PoolInit ==
    /\ HooksIdle /\ PureIdle /\ slot = NoSlot /\ inst = <<>>
    /\ (InventoryInit \/ ChrSetInit)

PoolSpec == PoolInit /\ [][PoolStep]_vars

\* singletons resolved while the game swaps them
StaticStep == StaticNext /\ UNCHANGED <<saveVars, inputVars, gameVars, blockVars, pureVars, poolVars>>

StaticsInit == HooksIdle /\ PureIdle /\ inv = NoPool /\ iter = NoIter /\ StaticInit

StaticSpec == StaticsInit /\ [][StaticStep]_vars

\* entries removed from an ItemBuffer
BufferStep == BufferNext /\ UNCHANGED <<saveVars, inputVars, gameVars, blockVars, memVars>>

RemovalInit == HooksIdle /\ MemIdle /\ BufferInit

BufferSpec == RemovalInit /\ [][BufferStep]_vars

\* structs laid out by the compiler
LayoutStep == LayoutNext /\ UNCHANGED <<saveVars, inputVars, gameVars, blockVars, memVars>>

SizesInit == HooksIdle /\ MemIdle /\ LayoutInit

LayoutSpec == SizesInit /\ [][LayoutStep]_vars

Next ==
    \/ SaveNext /\ UNCHANGED <<inputVars, gameVars, blockVars, pureVars, memVars>>
    \/ InputStep
    \/ BlockerStep
    \/ CodecStep
    \/ TableStep
    \/ PoolStep
    \/ StaticStep
    \/ BufferStep
    \/ LayoutStep

Spec == Init /\ [][Next]_vars

----------------------------------------------------------------------------
(* What the claims about the save stream speak of *)

IsPrefix(a, b) == Len(a) <= Len(b) /\ a = SubSeq(b, 1, Len(a))

\* the magic header stands at position at of bytes
HeaderAt(bytes, at) ==
    Len(bytes) >= at + HeaderLen /\ SubSeq(bytes, at + 1, at + HeaderLen) = HEADER

\* a whole length-delimited block stands at position at of bytes
BlockCompleteAt(bytes, at) ==
    /\ Len(bytes) >= at + LenPrefixWidth
    /\ Len(bytes) >= at + LenPrefixWidth
                     + FromU32LE(SubSeq(bytes, at + 1, at + LenPrefixWidth))

BlockAt(bytes, at) ==
    SubSeq(bytes, at + LenPrefixWidth + 1,
           at + LenPrefixWidth + FromU32LE(SubSeq(bytes, at + 1, at + LenPrefixWidth)))

\* the positions of the save log at which e was done
SaveCalls(e) == {i \in 1..Len(sv.log) : sv.log[i] = e}

\* the positions of the load log at which the load callback / the deserializer was invoked
LoadCallbacks == {i \in 1..Len(ld.log) : ld.log[i].ev = "callback"}

LoadNatives == {i \in 1..Len(ld.log) : ld.log[i].ev = "native"}

\* a save event in a real (non-placeholder) context whose callback returned a payload
SavedWithPayload == sv.status # "none" /\ sv.count # 12 /\ sv.cb.some

\* a save event in a real context whose callback returned None
SavedWithoutPayload == sv.status # "none" /\ sv.count # 12 /\ ~sv.cb.some

\* the load event read the region the save event wrote
LoadedTheSave == ld.status # "none" /\ ld.fromSave

C2_PlaceholderSaveUntouched ==
    (sv.status # "none" /\ sv.count = 12) =>
        /\ sv.status = "done"
        /\ sv.log = <<"native">>
        /\ sv.out = sv.pre \o sv.natOut
        /\ sv.natOut = Take(sv.nat, sv.cap - Len(sv.pre))

C2_Witness ==
    /\ sv.status = "done" /\ sv.count = 12 /\ sv.cb.some /\ sv.cb.data # <<>>
    /\ sv.natOut # <<>> /\ sv.log = <<"native">>

\* C3 (as claimed): when the block write reports a count other than payload length + 4,
\* the native serializer is still invoked for that save event.
C3_NativeInvokedAfterFailedBlockWrite ==
    (SavedWithPayload /\ sv.status = "done" /\ sv.blockN # Len(sv.cb.data) + 4) =>
        SaveCalls("native") # {}

\* C4: when the 15 bytes at the entry position are the magic header (and a whole block
\* follows), the hook invokes the load callback exactly once, with SavedData(the bytes
\* of that block), then the native deserializer with the stream right after the block;
\* the callback is not invoked again with MainMenu or NoSavedData.
C4_LoadWithHeader ==
    (ld.status # "none" /\ HeaderAt(file.bytes, ld.entry)
        /\ BlockCompleteAt(file.bytes, ld.entry + HeaderLen)) =>
        LET blk == BlockAt(file.bytes, ld.entry + HeaderLen)
        IN  /\ ld.status = "done"
            /\ Len(ld.log) = 2
            /\ ld.log[1].ev = "callback" /\ ld.log[1].kind = "SavedData"
            /\ ld.log[1].data = blk
            /\ ld.log[2] = NativeEv(ld.entry + HeaderLen + 4 + Len(blk))

C4_Witness ==
    /\ ld.status = "done" /\ ~ld.fromSave /\ ld.entry > 0 /\ ld.ret = 1
    /\ HeaderAt(file.bytes, ld.entry)
    /\ Len(ld.log) = 2 /\ ld.log[1].data = <<5>>
    /\ ld.log[2].pos < Len(file.bytes)

\* C5: when the header read returns fewer than 15 bytes, or bytes that are not the
\* header, the native deserializer is invoked with the stream at the position it had
\* on entry to the hook, however many bytes the read consumed.
C5_LoadWithoutHeaderRewinds ==
    (ld.status # "none" /\ ~HeaderAt(file.bytes, ld.entry)) =>
        /\ ld.status = "done"
        /\ LoadNatives # {}
        /\ \A i \in LoadNatives : ld.log[i].pos = ld.entry

C5_Witness ==
    /\ ld.status = "done" /\ ~HeaderAt(file.bytes, ld.entry)
    /\ ld.probeN = HeaderLen /\ ld.entry > 0
    /\ ld.log[1] = NativeEv(ld.entry)

C7_SaveLoadRoundTrip ==
    (SavedWithPayload
        /\ Len(sv.pre) + HeaderLen + 4 + Len(sv.cb.data) + Len(sv.nat) <= sv.cap) =>
        /\ sv.status = "done"
        /\ sv.out = sv.pre \o HEADER \o Delimited(sv.cb.data) \o sv.nat
        /\ LoadedTheSave =>
              /\ ld.status = "done"
              /\ LoadCallbacks = {1}
              /\ ld.log[1].kind = "SavedData" /\ ld.log[1].data = sv.cb.data
              /\ LoadNatives = {2}
              /\ Drop(file.bytes, ld.log[2].pos) = sv.nat

C7_Witness ==
    /\ SavedWithPayload /\ sv.cb.data = <<>> /\ sv.nat # <<>> /\ sv.pre # <<>>
    /\ LoadedTheSave /\ ld.status = "done" /\ ld.log[1].kind = "SavedData"

C9_NoLoadCallbackAfterNone ==
    (SavedWithoutPayload /\ LoadedTheSave /\ ld.status = "done") =>
        /\ sv.out = sv.pre \o sv.natOut
        /\ LoadCallbacks = {}

----------------------------------------------------------------------------
(* What the claims about the input blocker speak of *)

\* C10 (as claimed): however two or more threads interleave their calls of get_instance,
\* none of whose registrations fails, each of the three input hooks is installed at
\* most once in total.
C10_HooksInstalledAtMostOnce ==
    ~hookFailed => \A d \in Devices : installs[d] <= 1

\* C11 (as claimed): when a registration fails inside get_instance, then on return
\* every hook this call had installed is uninstalled, INPUT_BLOCKER is still unset
\* (so that a later call attempts the installation again) and the mutex is free.
C11_FailedInstallRollsBack ==
    [][\A t \in Threads :
          (pc[t] = "install" /\ pc'[t] = "idle") =>
              /\ hooks'[t] = {}
              /\ \A d \in Devices :
                    installed'[d] = installed[d] - (IF d \in hooks[t] THEN 1 ELSE 0)
              /\ mutexOwner' = 0
              /\ ~blockerSet']_vars

\* C12 (as claimed): a hook closure the game has entered never waits on another
\* thread: it is never found at INPUT_BLOCKER.wait() while INPUT_BLOCKER is unset.
C12_HookNeverWaits ==
    gamePc = "wait" => blockerSet

\* C13: after block(I) the blocked set is S \cup I, after unblock(I) it is S \ I and
\* after block_only(I) it is exactly I, S being the set just before the call; block
\* and unblock leave every input that I does not select as it was.
C13_BlockedSetAlgebra ==
    lastOp.op # "none" =>
        LET S == DevicesOf(lastOp.before)
            I == DevicesOf(lastOp.inputs)
        IN  /\ blocked \in InputFlags
            /\ lastOp.op = "block" => DevicesOf(blocked) = S \cup I
            /\ lastOp.op = "unblock" => DevicesOf(blocked) = S \ I
            /\ lastOp.op = "block_only" => DevicesOf(blocked) = I
            /\ lastOp.op \in {"block", "unblock"} =>
                  \A d \in Devices \ I : (d \in DevicesOf(blocked)) = (d \in S)

C13_Witness ==
    /\ lastOp.op = "unblock"
    /\ DevicesOf(lastOp.before) = {0, 2}
    /\ DevicesOf(lastOp.inputs) = {1, 2}
    /\ DevicesOf(blocked) = {0}

\* C14: a hook run while its device's flag is not in the blocked set invokes the
\* original exactly once, with the arguments it was given, and returns its result
\* unchanged; a hook run while the flag is in the blocked set does not invoke it.
C14_HookDefersToOriginal ==
    lastHook # NoHook =>
        IF lastHook.dev \in DevicesOf(lastHook.bits)
        THEN lastHook.out.passed = <<>>
        ELSE /\ lastHook.out.passed = <<lastHook.args>>
             /\ lastHook.out.ret = lastHook.origRet

C14_Witness ==
    /\ lastHook # NoHook
    /\ lastHook.dev \notin DevicesOf(lastHook.bits)
    /\ DevicesOf(lastHook.bits) # {}
    /\ lastHook.origRet = 1
    /\ lastHook.out.ret = 1

----------------------------------------------------------------------------
(* What the claims about item IDs speak of *)

TopBitsZero(raw) == raw.tag = 0

ValidTags == {0, 1, 2, 3, 4, 8}

\* C15: for every category c and ordinal o with its top four bits zero, try_new(c, o)
\* succeeds with an x such that x.category() = c, x.uncategorized().value() = o and
\* x.uncategorized().categorize(x.category()) = x.
C15_CategorizedRoundTrip ==
    (res.op = "try_new" /\ TopBitsZero(arg.raw)) =>
        /\ res.ok
        /\ res.category = arg.cat
        /\ res.ordinal = arg.raw
        /\ res.again = res.value

C15_Witness ==
    /\ res.op = "try_new" /\ res.ok
    /\ arg.cat = "Gem" /\ arg.raw = U32(0, LowMax)
    /\ res.category = "Gem"

\* C16: try_new returns an error exactly when the ordinal has one of its top four
\* bits set; on success the raw value of the ID is ordinal | (category << 28).
C16_TryNewErrorIffTopBits ==
    res.op = "try_new" =>
        /\ ~res.ok <=> ~TopBitsZero(arg.raw)
        /\ res.ok => res.value = U32(Discriminant(arg.cat), arg.raw.low)

C16_Witness ==
    /\ res.op = "try_new" /\ ~res.ok
    /\ arg.raw = U32(1, 0)

\* C17: MaybeInvalidCategorizedItemID::from(raw) has value raw, is_valid() and
\* as_valid() = Some(raw) when the top nibble of raw is one of 0, 1, 2, 3, 4, 8;
\* for every other raw it has value 0xFFFFFFFF, is not valid and as_valid() is None.
C17_MaybeInvalidNormalises ==
    res.op = "from" =>
        IF arg.raw.tag \in ValidTags
        THEN /\ res.value = arg.raw
             /\ res.is_valid
             /\ res.as_valid.some /\ res.as_valid.data = arg.raw
        ELSE /\ res.value = INVALID
             /\ res.value = U32(15, 268435455)
             /\ ~res.is_valid
             /\ ~res.as_valid.some
             /\ ~as_valid(INVALID).some

C17_Witness ==
    /\ res.op = "from"
    /\ arg.raw = U32(5, 1)
    /\ res.value = INVALID
    /\ ~res.is_valid

----------------------------------------------------------------------------
(* What the claims about field-instance selectors and decoding speak of *)

\* C18 (as claimed): for every type, container in 0..2^8 and index in 0..2^20, the
\* selector s = FieldInsSelector::new(type, container, index) answers
\* s.field_ins_type() = type, s.container() = container and s.index() = index.
C18_SelectorPacking ==
    res.op = "new" =>
        /\ res.field_ins_type = arg.type
        /\ res.container = arg.container
        /\ res.index = arg.index

\* C19 (as claimed): decoding a tag outside its enumeration is fatal and never gives
\* a typed value: field_ins_type on a selector whose tag is in 4..15 aborts, and
\* category and new_const on a value whose top nibble is none of 0, 1, 2, 3, 4, 8 panic.
C19_OutOfRangeTagIsFatal ==
    /\ (res.op = "field_ins_type" /\ arg.tag \notin {TypeTag(t) : t \in FieldInsType}) =>
          res.out = "abort"
    /\ (res.op = "decode" /\ arg.raw.tag \notin ValidTags) =>
          res.category = Panic /\ res.new_const = Panic

----------------------------------------------------------------------------
(* What the claims about parameter tables speak of *)

\* the positions of the directory whose id is id
RowsWithId(table, id) == {i \in 1..Len(table.row_info) : table.row_info[i].id = id}

\* C20: for a table whose directory is sorted ascending by unique id, get(id) gives
\* the row at table base + directory[i].offset (counted from the table's own base,
\* not from the directory's) when directory[i].id = id, and None for every id that
\* is not in the directory, so always None when the directory is empty; get_mut
\* resolves to the same address as get.
C20_TableLookup ==
    res.op \in {"get", "get_mut"} =>
        /\ \A i \in RowsWithId(arg.table, arg.id) :
              /\ res.out.some
              /\ res.out.data = arg.table.base + arg.table.row_info[i].offset
              /\ res.out.data # DirectoryBase(arg.table) + arg.table.row_info[i].offset
        /\ RowsWithId(arg.table, arg.id) = {} => ~res.out.some
        /\ Len(arg.table.row_info) = 0 => ~res.out.some
        /\ res.op = "get_mut" => res.out.some = get(arg.table, arg.id).some
        /\ (res.op = "get_mut" /\ res.out.some) => res.out.data = get(arg.table, arg.id).data

C20_Witness ==
    /\ res.op = "get"
    /\ Len(arg.table.row_info) = 3
    /\ arg.id = 7
    /\ arg.table.row_info[3].id = 7
    /\ res.out.some
    /\ res.out.data = arg.table.base + arg.table.row_info[3].offset

----------------------------------------------------------------------------
(* What the claims about slot pools speak of *)

\* the slots an inventory iteration has passed that held an item when it reached them
HeldItem == {i \in 1..Len(iter.seen) : iter.seen[i] # EmptyEntry}

\* the addresses the iteration has yielded
YieldedAddrs == {iter.yielded[j].addr : j \in 1..Len(iter.yielded)}

\* C21: items() yields exactly the non-empty entries among all key_items_capacity key
\* slots followed by all normal_items_capacity normal slots, in ascending slot order,
\* each once and no empty one; nothing when all are empty; items_mut() does the same.
C21_ItemsYieldsNonEmptySlots ==
    iter.kind \in {"items", "items_mut"} =>
        /\ YieldedAddrs = HeldItem
        /\ Len(iter.yielded) = Cardinality(HeldItem)
        /\ \A j \in 1..(Len(iter.yielded) - 1) :
              iter.yielded[j].addr < iter.yielded[j + 1].addr
        /\ Len(iter.seen) <= inv.key_items_capacity + inv.normal_items_capacity
        /\ iter.done => Len(iter.seen) = inv.key_items_capacity + inv.normal_items_capacity
        /\ (iter.done /\ \A i \in 1..Len(iter.seen) : iter.seen[i] = EmptyEntry) =>
              iter.yielded = <<>>

C21_Witness ==
    /\ iter.kind = "items_mut" /\ iter.done
    /\ inv.writes = 0
    /\ inv.key_items_capacity = 1 /\ inv.normal_items_capacity = 2
    /\ inv.mem[2] = EmptyEntry
    /\ inv.normal_items_count = 1
    /\ Len(iter.yielded) = 2
    /\ iter.yielded[1].addr = 1 /\ iter.yielded[2].addr = 3

\* whether a slot's content counts as empty for the iteration at hand
EmptyFor(kind, e) == IF kind = "chr_iter" THEN e.chr = 0 ELSE e = EmptyEntry

\* the slots passed whose content the game changed, from empty to filled or back,
\* between the creation of the iterator and the moment it reached them
ChangedBeforeReached ==
    {i \in 1..Len(iter.seen) :
        EmptyFor(iter.kind, iter.snap[i]) # EmptyFor(iter.kind, iter.seen[i])}

\* C22: the emptiness of a slot is judged when the iterator reaches it, not when the
\* iterator is made: a slot the game has emptied or filled in between is skipped or
\* yielded according to what it holds when it is reached.
C22_EmptinessJudgedWhenReached ==
    iter # NoIter =>
        \A i \in ChangedBeforeReached :
            (i \in YieldedAddrs) <=> ~EmptyFor(iter.kind, iter.seen[i])

C22_Witness ==
    /\ iter.kind = "items" /\ iter.done
    /\ \E i \in ChangedBeforeReached : i \in YieldedAddrs /\ iter.snap[i] = EmptyEntry

----------------------------------------------------------------------------
(* What the claims about singletons speak of *)

\* C24: every call of instance() gives Err(NotFound) if the relative address does
\* not translate, Err(Null) if the slot holds null at the time of that call, and
\* otherwise the instance at the address the slot holds at the time of that call,
\* whatever earlier calls gave.
C24_InstanceReadsSlotEachCall ==
    \A i \in 1..Len(inst) :
        IF ~slot.translates THEN inst[i].out = NotFound
        ELSE IF inst[i].held = 0 THEN inst[i].out = NullInstance
        ELSE inst[i].out.ok /\ inst[i].out.v = inst[i].held

C24_Witness ==
    /\ slot.kind = "lazy"
    /\ Len(inst) = 3
    /\ inst[1].out.ok /\ inst[1].out.v = 1
    /\ inst[2].out = NullInstance
    /\ inst[3].out.ok /\ inst[3].out.v = 2

----------------------------------------------------------------------------
(* Removal from an ItemBuffer *)

\* C25: ItemBuffer::remove(index) on a buffer of length len returns, when
\* index < len, the entry that was at index, makes the length len - 1, leaves
\* the entries before index as they were and moves every entry after index one
\* place down in the same order, so that as_slice exposes exactly those
\* len - 1 entries; when index >= len it panics and leaves the length and the
\* entries as they were
C25_RemoveShiftsLeft ==
    (arg.kind = "buffer" /\ res.op = "remove") =>
        LET old == as_slice(res.before)
            new == as_slice(arg.buffer)
        IN IF res.at < res.before.length
           THEN /\ ~res.panicked
                /\ res.ret = <<old[res.at + 1]>>
                /\ arg.buffer.length = res.before.length - 1
                /\ Len(new) = Len(old) - 1
                /\ \A j \in 1..Len(new) :
                       new[j] = IF j <= res.at THEN old[j] ELSE old[j + 1]
           ELSE /\ res.panicked
                /\ res.ret = <<>>
                /\ arg.buffer = res.before

\* the first of three different entries has been removed
C25_Witness ==
    /\ arg.kind = "buffer" /\ res.op = "remove"
    /\ res.before.length = 3 /\ res.at = 0 /\ ~res.panicked
    /\ Cardinality({res.before.elems[k] : k \in 1..3}) = 3
    /\ as_slice(arg.buffer) = <<res.before.elems[2], res.before.elems[3]>>

----------------------------------------------------------------------------
(* Sizes of the foreign structs *)

\* the size the compiler gives the struct under study, once it is laid out
LaidOut == arg.kind = "layout" /\ res.op = "layout" /\ res.done

----------------------------------------------------------------------------
(* The payload section of a parameter table *)

\* the first byte after the last entry of the row directory
PayloadBase(table) == DirectoryBase(table) + Len(row_info(table)) * RowInfoSize

\* the rows are stored one after another in directory order after the directory
Contiguous(table) ==
    \A i \in 1..Len(row_info(table)) :
        table.base + row_info(table)[i].offset = PayloadBase(table) + (i - 1) * RowSize

\* C27: ParamTable::data() returns the address of the first byte after the
\* last entry of the row directory (table base + fixed header + length *
\* size_of(ParamRowInfo)), and so element i of as_slice() is the row that
\* iter() yields as its i-th pair when the rows are stored contiguously in
\* directory order
C27_DataAfterDirectory ==
    (arg.kind = "table" /\ res.op = "data") =>
        /\ res.out = PayloadBase(arg.table)
        /\ Contiguous(arg.table) =>
               \A i \in 1..Len(res.slice) : res.slice[i] = res.pairs[i][2]

----------------------------------------------------------------------------
(* The name of a parameter table *)

\* C28: ParamTable::name() reads the string that starts at table base +
\* name_offset, the offset counting from the beginning of the struct in foreign
\* memory, and as_param::<T>() returns Some exactly when the string stored at
\* that address equals T::NAME
C28_NameReadAtTableOffset ==
    (arg.kind = "name" /\ res.op = "as_param") =>
        /\ res.name = arg.stored
        /\ res.out = "Some" <=> arg.stored = arg.wanted

----------------------------------------------------------------------------
(* Loads that the game's deserializer rejects *)

\* C29 as stated: in every load event in which the native deserializer returns
\* 0 the load callback has not been invoked with any OnLoadType, whether or not
\* the stream started with the magic header, and the hook returns 0 exactly
\* when the native deserializer returned 0, and 1 otherwise
C29_CallbackOnlyForAcceptedLoads ==
    ld.status = "done" =>
        /\ ld.natRet = 0 => LoadCallbacks = {}
        /\ ld.ret = (IF ld.natRet = 0 THEN 0 ELSE 1)

\* C29: the hook returns 0 exactly when the native deserializer returned 0,
\* and 1 otherwise; in a load event in which the native deserializer returns 0
\* the callback is never invoked with MainMenu or NoSavedData, and it is
\* invoked with SavedData, before the native deserializer runs, exactly when
\* the stream started with the magic header
C29_ClassifiedOnlyWhenAccepted ==
    ld.status = "done" =>
        /\ ld.ret = (IF ld.natRet = 0 THEN 0 ELSE 1)
        /\ ld.natRet = 0 =>
              /\ \A i \in LoadCallbacks :
                    /\ ld.log[i].kind = "SavedData"
                    /\ \A j \in LoadNatives : i < j
              /\ LoadCallbacks # {} <=> HeaderAt(file.bytes, ld.entry)

\* a load that delivered SavedData and was then rejected by the game
C29_Witness ==
    /\ ld.status = "done" /\ ld.natRet = 0 /\ ld.ret = 0
    /\ HeaderAt(file.bytes, ld.entry)
    /\ LoadCallbacks = {1} /\ ld.log[1].kind = "SavedData"
    /\ LoadNatives = {2}

----------------------------------------------------------------------------
(* The invariants of NonEmptyEquipInventoryDataListEntry *)

\* what the type NonEmptyEquipInventoryDataListEntry promises of its values:
\* item_id is a CategorizedItemID and gaitem_handle a NonZero<u32>
NonEmptyInvariants(e) == e.item_id.tag \in ValidTags /\ e.gaitem_handle # 0

\* C30: every entry exposed as NonEmptyEquipInventoryDataListEntry by
\* as_non_empty or as_non_empty_mut (and so by items() and items_mut()) has, for
\* every content of foreign memory, an item_id with a valid category nibble and a
\* gaitem_handle that is not zero
C30_NonEmptyViewsKeepInvariants ==
    res.op = "entry" =>
        /\ res.as_non_empty.some => NonEmptyInvariants(res.as_non_empty.data)
        /\ res.as_non_empty_mut.some => NonEmptyInvariants(res.as_non_empty_mut.data)

====
